---- MODULE Spec2Model ----
(***************************************************************************)
(* DVGeoSketch (pygeo/parameterization/DVGeoSketch.py): the design-variable*)
(* registry of a parametric geometry engine, its optional composite design *)
(* variable, the registration of the variables with an optimizer, and the  *)
(* writing of a point set to a tecplot file.                               *)
(*                                                                         *)
(* A Python dict / OrderedDict is a sequence of entries [k |-> key,        *)
(* v |-> value] in insertion order.  An attribute that may hold None, or   *)
(* may not exist on the object at all, is a sequence of length 0 or 1.     *)
(*                                                                         *)
(* Spec is the registry and the methods that read it; SpecIO is            *)
(* writePointSet, which touches none of the registry.  addVariable (abstract*)
(* in the class), the value-setting operation, the switch to composite mode*)
(* and the conversions the class calls but does not define (getNDV,        *)
(* convertDictToSensitivity, convertSensitivityToDict, mapVecToDVGeo,      *)
(* mapXDictToComp) follow the design document.                             *)
(***************************************************************************)
EXTENDS Integers, Sequences, FiniteSets, TLC

\* ------------------------------------------------------------- bounds
MaxDVs == 2
MaxFd == 3

\* ------------------------------------------------------------- inputs
DVNames == {"twist", "shape", "span"}
NVals == {1, 2}
CompositeNames == {"comp", "pca"}
OtherKeys == {"other"}
PointSetNames == {"wing", "tail"}
FileNames == {"out", "plot"}

\* ------------------------------------------------------------- dict helpers
RECURSIVE SumSeq(_)
SumSeq(s) == IF s = <<>> THEN 0 ELSE Head(s) + SumSeq(Tail(s))

RECURSIVE Flatten(_)
Flatten(ss) == IF ss = <<>> THEN <<>> ELSE Head(ss) \o Flatten(Tail(ss))

Keys(d) == [i \in 1..Len(d) |-> d[i].k]

KeySet(d) == {d[i].k : i \in 1..Len(d)}

Has(d, key) == key \in KeySet(d)

Get(d, key) == d[CHOOSE i \in 1..Len(d) : d[i].k = key].v

\* d[key] = val : an existing key keeps its position, a new key goes last
Put(d, key, val) ==
    IF Has(d, key)
    THEN [i \in 1..Len(d) |-> IF d[i].k = key THEN [k |-> key, v |-> val] ELSE d[i]]
    ELSE Append(d, [k |-> key, v |-> val])

\* d.pop(key), for a key that is present: the dict without that entry
Pop(d, key) == SelectSeq(d, LAMBDA e : e.k # key)

RECURSIVE PutAll(_, _)
\* for key in src: dst[key] = src[key]
PutAll(dst, src) ==
    IF src = <<>> THEN dst
    ELSE PutAll(Put(dst, Head(src).k, Head(src).v), Tail(src))

\* ------------------------------------------------------------- vectors
ConstVec(n, c) == [i \in 1..n |-> c]

Ramp(n) == [i \in 1..n |-> i]

Dot(a, b) == SumSeq([i \in 1..Len(a) |-> a[i] * b[i]])

MatVec(m, vec) == [i \in 1..Len(m) |-> Dot(m[i], vec)]

\* ------------------------------------------------------------- state
VARIABLES
    DVs,              \* self.DVs: OrderedDict name -> design variable
    useCompostiveDVs, \* self.useCompostiveDVs
    compositeDVs,     \* self.compositeDVs: <<>> is None, <<c>> a composite DV
    DVComposite,      \* self.DVComposite: <<>> is "no such attribute"
    openFiles,        \* tecplot file handles opened and not closed: [fd, path]
    nextFd,           \* the number of file handles opened so far
    passed,           \* history: the names passed to addVariable, in the order of their first call
    lastSet,          \* history: name -> the value most recently set
    ret               \* the last call: its name, arguments and outcome

vars == <<DVs, useCompostiveDVs, compositeDVs, DVComposite, openFiles, nextFd, passed, lastSet, ret>>

registry == <<DVs, useCompostiveDVs, compositeDVs, DVComposite>>

NoCall == [op |-> "init"]

Init ==
    /\ DVs = <<>>
    /\ useCompostiveDVs = FALSE
    /\ compositeDVs = <<>>
    /\ DVComposite = <<>>
    /\ openFiles = {}
    /\ nextFd = 0
    /\ passed = <<>>
    /\ lastSet = <<>>
    /\ ret = NoCall

\* ------------------------------------------------------------- registry
getNDV == SumSeq([i \in 1..Len(DVs) |-> DVs[i].v.nVal])

\* the per-variable entries of a dict laid end to end in registry order
convertDictToSensitivity(d) == Flatten([i \in 1..Len(DVs) |-> Get(d, DVs[i].v.name)])

\* a full-space vector cut into one entry per design variable, in registry order
convertSensitivityToDict(vec) ==
    [i \in 1..Len(DVs) |->
        LET off == SumSeq([j \in 1..(i - 1) |-> DVs[j].v.nVal])
        IN [k |-> DVs[i].k, v |-> SubSeq(vec, off + 1, off + DVs[i].v.nVal)]]

\* the values a design variable of n entries can take
DVValues(n) == {ConstVec(n, 0), Ramp(n)}

\* the design variable addVariable builds for (name, n)
NewDV(name, n) ==
    [name |-> name, nVal |-> n, value |-> ConstVec(n, 0),
     lower |-> [i \in 1..n |-> 0 - (n + i)], upper |-> [i \in 1..n |-> 2 * n + i],
     scale |-> n]

addVariable(name, n) ==
    /\ ~useCompostiveDVs
    /\ IF Has(DVs, name)
       THEN /\ ret' = [op |-> "addVariable", raised |-> "DuplicateNameError"]
            /\ UNCHANGED <<DVs, passed, lastSet>>
       ELSE /\ Len(DVs) < MaxDVs
            /\ DVs' = Put(DVs, name, NewDV(name, n))
            /\ passed' = Append(passed, name)
            /\ lastSet' = Put(lastSet, name, ConstVec(n, 0))
            /\ ret' = [op |-> "addVariable", raised |-> "none"]
    /\ UNCHANGED <<useCompostiveDVs, compositeDVs, DVComposite, openFiles, nextFd>>

setValues(name, val) ==
    /\ Has(DVs, name)
    /\ Get(DVs, name).value # val
    /\ DVs' = Put(DVs, name, [Get(DVs, name) EXCEPT !.value = val])
    /\ lastSet' = Put(lastSet, name, val)
    /\ ret' = [op |-> "setValues", raised |-> "none"]
    /\ UNCHANGED <<useCompostiveDVs, compositeDVs, DVComposite, openFiles, nextFd, passed>>

\* ------------------------------------------------------------- composite DV
\* the linear maps from a composite space to the full space of n entries
IdentityLike(n, kc) == [i \in 1..n |-> [j \in 1..kc |-> IF ((i - 1) % kc) + 1 = j THEN 1 ELSE 0]]

AllOnes(n) == [i \in 1..n |-> <<1>>]

NewComposite(name, u, kc) ==
    [name |-> name, nVal |-> kc, value |-> ConstVec(kc, 0),
     lower |-> ConstVec(kc, -10), upper |-> ConstVec(kc, 10), scale |-> 1, u |-> u]

Composites ==
    {NewComposite(name, IdentityLike(getNDV, 2), 2) : name \in CompositeNames}
    \cup {NewComposite(name, AllOnes(getNDV), 1) : name \in CompositeNames}

\* Composite mode is switched on outside this class.  __init__ declares
\* useCompostiveDVs and compositeDVs; DVComposite is read by the class and
\* written nowhere in it, so what it holds afterwards is open: nothing, the
\* composite DV, or another one.
addCompositeDV(c, d) ==
    /\ ~useCompostiveDVs
    /\ useCompostiveDVs' = TRUE
    /\ compositeDVs' = <<c>>
    /\ DVComposite' = d
    /\ ret' = [op |-> "addCompositeDV", raised |-> "none"]
    /\ UNCHANGED <<DVs, openFiles, nextFd, passed, lastSet>>

\* ------------------------------------------------------------- the class
Transpose(m, kc) == [j \in 1..kc |-> [i \in 1..Len(m) |-> m[i][j]]]

\* full space -> composite space: the composite entry alone
mapXDictToComp(d) ==
    LET c == compositeDVs[1]
    IN <<[k |-> c.name, v |-> MatVec(Transpose(c.u, c.nVal), convertDictToSensitivity(d))]>>

\* composite space -> full space, through the map of the DV the class consults
mapVecToDVGeo(userVec) == MatVec(DVComposite[1].u, userVec)

\* getValues walking the registry from its last entry to its first
getValues_Reversed ==
    LET dvDict == [i \in 1..Len(DVs) |->
                     [k |-> DVs[Len(DVs) + 1 - i].k, v |-> DVs[Len(DVs) + 1 - i].v.value]]
    IN IF useCompostiveDVs THEN mapXDictToComp(dvDict) ELSE dvDict

getValues ==
    LET dvDict == [i \in 1..Len(DVs) |-> [k |-> DVs[i].k, v |-> DVs[i].v.value]]
    IN IF useCompostiveDVs THEN mapXDictToComp(dvDict) ELSE dvDict

\* getVarNames deciding on the composite mode alone
getVarNames_IgnoresPyOptSparse(pyOptSparse) ==
    IF ~useCompostiveDVs
    THEN Keys(DVs)
    ELSE <<compositeDVs[1].name>>

getVarNames(pyOptSparse) ==
    IF ~pyOptSparse \/ ~useCompostiveDVs
    THEN Keys(DVs)
    ELSE <<compositeDVs[1].name>>

\* [raised, val, caller]: the error raised, the dict returned, and the caller's
\* dict as the call leaves it.  The pop acts on the deep copy (local); the
\* print of the input changes nothing.
mapXDictToDVGeo(inDict) ==
    LET local == inDict
    IN IF DVComposite = <<>>
       THEN [raised |-> "AttributeError", val |-> <<>>, caller |-> inDict]
       ELSE IF ~Has(local, DVComposite[1].name)
       THEN [raised |-> "KeyError", val |-> <<>>, caller |-> inDict]
       ELSE LET userVec == Get(local, DVComposite[1].name)
                rest == Pop(local, DVComposite[1].name)
                outVec == mapVecToDVGeo(userVec)
                outDict == convertSensitivityToDict(outVec)
            IN [raised |-> "none", val |-> PutAll(outDict, rest), caller |-> inDict]

\* addVarGroup handed the bounds the wrong way round
AddVarGroup_BoundsSwapped(dv) ==
    [fn |-> "addVarGroup", name |-> dv.name, nVal |-> dv.nVal, type |-> "c",
     value |-> dv.value, lower |-> dv.upper, upper |-> dv.lower, scale |-> dv.scale]

AddVarGroup(dv) ==
    [fn |-> "addVarGroup", name |-> dv.name, nVal |-> dv.nVal, type |-> "c",
     value |-> dv.value, lower |-> dv.lower, upper |-> dv.upper, scale |-> dv.scale]

AddConGroup(name, n, lb, ub, wrt, jac) ==
    [fn |-> "addConGroup", name |-> name, nCon |-> n, lower |-> lb, upper |-> ub,
     scale |-> 1, linear |-> TRUE, wrt |-> wrt, jac |-> jac]

\* lb and ub: the individual bounds, as dicts and then as one vector each
lbDict == [i \in 1..Len(DVs) |-> [k |-> DVs[i].k, v |-> DVs[i].v.lower]]

ubDict == [i \in 1..Len(DVs) |-> [k |-> DVs[i].k, v |-> DVs[i].v.upper]]

\* the composite branch, leaving `stored` in self.compositeDVs: the variable
\* group of the composite DV, then the constraint group, whose arguments read
\* self.DVComposite
compositeBranch(stored) ==
    LET first == <<AddVarGroup(compositeDVs[1])>>
        lb == convertDictToSensitivity(lbDict)
        ub == convertDictToSensitivity(ubDict)
    IN IF DVComposite = <<>>
       THEN [raised |-> "AttributeError", calls |-> first, compositeDVs |-> stored]
       ELSE [raised |-> "none",
             calls |-> Append(first,
                 AddConGroup(DVComposite[1].name \o "_con", getNDV, lb, ub,
                             DVComposite[1].name,
                             <<[k |-> DVComposite[1].name, v |-> DVComposite[1].u]>>)),
             compositeDVs |-> stored]

nonCompositeBranch ==
    [raised |-> "none",
     calls |-> [i \in 1..Len(DVs) |-> AddVarGroup(DVs[i].v)],
     compositeDVs |-> compositeDVs]

\* addVariablesPyOpt storing lb and ub as the composite DV's own bounds
addVariablesPyOpt_StoresBounds ==
    IF useCompostiveDVs
    THEN compositeBranch(<<[compositeDVs[1] EXCEPT
                               !.lower = convertDictToSensitivity(lbDict),
                               !.upper = convertDictToSensitivity(ubDict)]>>)
    ELSE nonCompositeBranch

\* [raised, calls, compositeDVs]: the error raised, the calls made on optProb in
\* order, and self.compositeDVs as the call leaves it
addVariablesPyOpt ==
    IF useCompostiveDVs
    THEN compositeBranch(compositeDVs)
    ELSE nonCompositeBranch

\* ------------------------------------------------------------- the calls
\* the dicts handed to mapXDictToDVGeo: any of the composite names as keys, with
\* or without keys that are no composite DV ("other", and the name of a design
\* variable)
CompositeLen == IF DVComposite = <<>> THEN 1 ELSE DVComposite[1].nVal

Entry(key) ==
    IF key \in CompositeNames THEN <<[k |-> key, v |-> Ramp(CompositeLen)]>>
    ELSE <<[k |-> key, v |-> <<7>>], [k |-> "twist", v |-> <<9>>]>>

InDicts ==
    {(IF "other" \in s THEN Entry("other") ELSE <<>>)
        \o (IF "comp" \in s THEN Entry("comp") ELSE <<>>)
        \o (IF "pca" \in s THEN Entry("pca") ELSE <<>>) : s \in SUBSET (CompositeNames \cup OtherKeys)}

GetValues ==
    /\ ret' = [op |-> "getValues", raised |-> "none", val |-> getValues]
    /\ UNCHANGED <<registry, openFiles, nextFd, passed, lastSet>>

GetVarNames(pyOptSparse) ==
    /\ ret' = [op |-> "getVarNames", raised |-> "none", pyOptSparse |-> pyOptSparse,
               val |-> getVarNames(pyOptSparse)]
    /\ UNCHANGED <<registry, openFiles, nextFd, passed, lastSet>>

MapXDictToDVGeo(inDict) ==
    /\ ret' = [op |-> "mapXDictToDVGeo", inDict |-> inDict] @@ mapXDictToDVGeo(inDict)
    /\ UNCHANGED <<registry, openFiles, nextFd, passed, lastSet>>

AddVariablesPyOpt ==
    LET r == addVariablesPyOpt
    IN /\ ret' = [op |-> "addVariablesPyOpt", raised |-> r.raised, calls |-> r.calls]
       /\ compositeDVs' = r.compositeDVs
       /\ UNCHANGED <<DVs, useCompostiveDVs, DVComposite, openFiles, nextFd, passed, lastSet>>

\* what the collaborators of writePointSet do: the update hook, openTecplot and
\* writeTecplot1D each return or raise; closeTecplot returns
WriteOutcomes == {"ok", "updateRaises", "openRaises", "writeRaises"}

\* [raised, path, fd, open]: the error raised, the file named, the handle the
\* call opened (0: none) and the handles open as the call leaves them
writePointSet(name, fileName, outcome) ==
    LET path == fileName \o "_" \o name \o ".dat"
        f == [fd |-> nextFd + 1, path |-> path]
    IN IF outcome = "updateRaises"
       THEN [raised |-> "update", path |-> "", fd |-> 0, open |-> openFiles]
       ELSE IF outcome = "openRaises"
       THEN [raised |-> "openTecplot", path |-> path, fd |-> 0, open |-> openFiles]
       ELSE IF outcome = "writeRaises"
       THEN [raised |-> "writeTecplot1D", path |-> path, fd |-> f.fd,
             open |-> openFiles \cup {f}]
       ELSE [raised |-> "none", path |-> path, fd |-> f.fd,
             open |-> (openFiles \cup {f}) \ {f}]

WritePointSet(name, fileName, outcome) ==
    LET r == writePointSet(name, fileName, outcome)
    IN /\ nextFd < MaxFd
       /\ ret' = [op |-> "writePointSet", raised |-> r.raised, path |-> r.path, fd |-> r.fd]
       /\ openFiles' = r.open
       /\ nextFd' = IF r.fd = 0 THEN nextFd ELSE r.fd
       /\ UNCHANGED <<registry, passed, lastSet>>

NextIO ==
    \E name \in PointSetNames, fileName \in FileNames, outcome \in WriteOutcomes :
        WritePointSet(name, fileName, outcome)

SpecIO == Init /\ [][NextIO]_vars

Next ==
    \/ \E name \in DVNames, n \in NVals : addVariable(name, n)
    \/ \E name \in DVNames, n \in NVals : \E val \in DVValues(n) :
         /\ Has(DVs, name)
         /\ Get(DVs, name).nVal = n
         /\ setValues(name, val)
    \/ \E c \in Composites, d \in {<<>>} \cup {<<e>> : e \in Composites} : addCompositeDV(c, d)
    \/ GetValues
    \/ \E pyOptSparse \in BOOLEAN : GetVarNames(pyOptSparse)
    \/ \E inDict \in InDicts : MapXDictToDVGeo(inDict)
    \/ AddVariablesPyOpt

Spec == Init /\ [][Next]_vars

\* ------------------------------------------------------------- claims
\* C1: in non-composite mode getValues returns a mapping whose keys are exactly
\* the names passed to addVariable, in call order, each mapped to the value most
\* recently set for that design variable.
C1_GetValuesCallOrderLastSet ==
    (ret.op = "getValues" /\ ~useCompostiveDVs) =>
        /\ Keys(ret.val) = passed
        /\ \A i \in 1..Len(passed) : ret.val[i].v = Get(lastSet, passed[i])

C1_Witness ==
    /\ ret.op = "getValues"
    /\ ~useCompostiveDVs
    /\ passed = <<"twist", "shape">>
    /\ Get(lastSet, "twist") = Ramp(2)
    /\ Get(lastSet, "shape") = ConstVec(1, 0)

\* C2: getVarNames(pyOptSparse=True) returns the one-element list of the composite
\* DV's name if and only if composite mode is active; with the flag false, or
\* composite mode inactive, it returns all individual names in insertion order.
C2_GetVarNamesCompositeIff ==
    ret.op = "getVarNames" =>
        /\ ret.pyOptSparse =>
             ((compositeDVs # <<>> /\ ret.val = <<compositeDVs[1].name>>) <=> useCompostiveDVs)
        /\ (~ret.pyOptSparse \/ ~useCompostiveDVs) => ret.val = passed

C2_Witness ==
    /\ ret.op = "getVarNames"
    /\ ret.pyOptSparse
    /\ useCompostiveDVs
    /\ Len(passed) = 2
    /\ ret.val = <<"pca">>

\* C3: for an input dict holding the composite DV's key, mapXDictToDVGeo returns a
\* dict in which every other key of the input has its input value, the composite
\* key is gone and the individual-DV keys of the full-space conversion stand in
\* its place, and the caller's dict is as it was.
C3_MapPassesThroughAndReplaces ==
    (ret.op = "mapXDictToDVGeo" /\ compositeDVs # <<>>
        /\ Has(ret.inDict, compositeDVs[1].name)) =>
        /\ ret.raised = "none"
        /\ \A i \in 1..Len(ret.inDict) :
             ret.inDict[i].k # compositeDVs[1].name =>
                /\ Has(ret.val, ret.inDict[i].k)
                /\ Get(ret.val, ret.inDict[i].k) = ret.inDict[i].v
        /\ ~Has(ret.val, compositeDVs[1].name)
        /\ KeySet(ret.val) = (KeySet(ret.inDict) \ {compositeDVs[1].name}) \cup KeySet(DVs)
        /\ ret.caller = ret.inDict

\* C4: in composite mode one call of addVariablesPyOpt makes exactly one
\* addVarGroup call and exactly one addConGroup call, no variable group for an
\* individual design variable, and hands over as the constraint Jacobian the
\* stored composite map u itself.
C4_CompositeOneVarGroupOneConGroup ==
    (ret.op = "addVariablesPyOpt" /\ useCompostiveDVs) =>
        /\ Cardinality({i \in 1..Len(ret.calls) : ret.calls[i].fn = "addVarGroup"}) = 1
        /\ Cardinality({i \in 1..Len(ret.calls) : ret.calls[i].fn = "addConGroup"}) = 1
        /\ \A i \in 1..Len(ret.calls) :
             /\ ret.calls[i].fn = "addVarGroup" => ret.calls[i].name \notin KeySet(DVs)
             /\ ret.calls[i].fn = "addConGroup" =>
                  \A j \in 1..Len(ret.calls[i].jac) : ret.calls[i].jac[j].v = compositeDVs[1].u

\* C5: in non-composite mode one call of addVariablesPyOpt makes exactly one
\* addVarGroup call per design variable, in insertion order, each with that
\* variable's own name, nVal, value, lower and upper bound and scale and the type
\* "c", and no addConGroup call; with an empty registry it makes no call.
C5_NonCompositeOneGroupPerDV ==
    (ret.op = "addVariablesPyOpt" /\ ~useCompostiveDVs) =>
        /\ ret.raised = "none"
        /\ Len(ret.calls) = Len(passed)
        /\ \A i \in 1..Len(passed) :
             ret.calls[i] =
                [fn |-> "addVarGroup", name |-> passed[i], nVal |-> DVs[i].v.nVal,
                 type |-> "c", value |-> Get(lastSet, passed[i]),
                 lower |-> NewDV(passed[i], DVs[i].v.nVal).lower,
                 upper |-> NewDV(passed[i], DVs[i].v.nVal).upper,
                 scale |-> NewDV(passed[i], DVs[i].v.nVal).scale]

C5_Witness ==
    /\ ret.op = "addVariablesPyOpt"
    /\ ~useCompostiveDVs
    /\ Len(ret.calls) = 2
    /\ ret.calls[1].nVal = 2
    /\ ret.calls[2].nVal = 1
    /\ ret.calls[1].value = Ramp(2)

\* C6: in composite mode the constraint group addVariablesPyOpt registers is named
\* the composite name followed by "_con", has as size the sum of nVal over the
\* individual design variables, and has as bounds their lower and upper bounds
\* laid end to end in insertion order.
C6_CompositeConGroupNameSizeBounds ==
    (ret.op = "addVariablesPyOpt" /\ useCompostiveDVs) =>
        \E i \in 1..Len(ret.calls) :
            /\ ret.calls[i].fn = "addConGroup"
            /\ ret.calls[i].name = compositeDVs[1].name \o "_con"
            /\ ret.calls[i].nCon = SumSeq([j \in 1..Len(DVs) |-> DVs[j].v.nVal])
            /\ ret.calls[i].lower = Flatten([j \in 1..Len(DVs) |-> DVs[j].v.lower])
            /\ ret.calls[i].upper = Flatten([j \in 1..Len(DVs) |-> DVs[j].v.upper])

\* C7: writePointSet never leaves the output file open: however the call ends,
\* the handle it opened is closed by then.
C7_WritePointSetClosesFile ==
    ret.op = "writePointSet" => \A h \in openFiles : h.fd # ret.fd

\* C8: in composite mode mapXDictToDVGeo, given a dict without the composite DV's
\* key, fails with a missing-key error and leaves the caller's dict as it was.
C8_MissingCompositeKeyFails ==
    (ret.op = "mapXDictToDVGeo" /\ useCompostiveDVs
        /\ ~Has(ret.inDict, compositeDVs[1].name)) =>
        /\ ret.raised = "KeyError"
        /\ ret.caller = ret.inDict

\* C9: getValues, getVarNames, addVariablesPyOpt and mapXDictToDVGeo leave the
\* registry as it was: the names, their order, every variable's value, bounds,
\* scale and count, the composite flag and the composite DV.
ReadOps == {"getValues", "getVarNames", "addVariablesPyOpt", "mapXDictToDVGeo"}

C9_ReadersLeaveRegistry ==
    [][ret'.op \in ReadOps =>
          (DVs' = DVs /\ useCompostiveDVs' = useCompostiveDVs
            /\ compositeDVs' = compositeDVs /\ DVComposite' = DVComposite)]_vars

C9_Witness ==
    /\ ret.op = "addVariablesPyOpt"
    /\ useCompostiveDVs
    /\ Len(DVs) = 2
    /\ Len(ret.calls) = 2

\* C10: in composite mode one composite name is used throughout: the variable
\* group's name, the name the constraint group is taken with respect to, the key
\* of the constraint Jacobian, the key mapXDictToDVGeo removes, and the name
\* getVarNames(pyOptSparse=True) returns are the same.
C10_OneCompositeName ==
    (ret.op = "addVariablesPyOpt" /\ useCompostiveDVs) =>
        LET name == getVarNames(TRUE)[1]
        IN /\ \A i \in 1..Len(ret.calls) :
                /\ ret.calls[i].fn = "addVarGroup" => ret.calls[i].name = name
                /\ ret.calls[i].fn = "addConGroup" =>
                     (ret.calls[i].wrt = name /\ Keys(ret.calls[i].jac) = <<name>>)
           /\ DVComposite # <<>>
           /\ DVComposite[1].name = name
====
